---- MODULE Spec2Model ----
(***************************************************************************)
(* Model of csv_combine.py: get_files and Reader.combine with its two      *)
(* header readers (get_header, get_header_by_lines).                       *)
(*                                                                         *)
(* A file is a sequence of lines; a line is an opaque non-empty token.     *)
(* readline() at end of file returns the empty string, which is modelled   *)
(* by EOF == "".  write("") appends nothing.  The log output of combine    *)
(* is kept in the record `report`.                                         *)
(***************************************************************************)
EXTENDS Integers, Sequences, FiniteSets, TLC

\* ------------------------------------------------------------------ bounds
MaxLines == 2      \* most lines an input file holds
MaxForce == 2      \* largest forced header line count (-n)
MaxPatterns == 2   \* most glob patterns on the command line

Names == {"a", "b", "c"}         \* paths a glob pattern can match
NameOrder == <<"a", "b", "c", "o">>  \* lexicographic order of all paths
Lines == {"h", "x"}              \* line contents
EOF == ""                        \* what readline() returns at end of file
None == <<>>                     \* Optional[int]: None, or <<n>>
Stale == <<"stale">>             \* content of an output path that exists already

VARIABLES
    files,          \* get_files(globbing): the resolved input list
    outfile,        \* combine's outfile argument
    force,          \* force_header_line_number: None or <<n>>
    status_func,    \* TRUE iff a status_update_function is configured
    fs,             \* path -> content (sequence of lines)
    present,        \* paths that exist on disk
    fs0,            \* fs at the call (history)
    present0,       \* present at the call (history)
    pc,             \* position in combine
    err,            \* "" | "ReaderError" | "IOError"
    inOpen,         \* open input handles, in opening order
    outOpen,        \* the output handle is open
    openLog,        \* every successful open(): <<"r"|"w", path>> (history)
    headers,        \* headers[number][line_number]
    header_files,   \* header_files[number][file_number]
    header_length,
    file_count,     \* enumerate index of the per-file loop (0-based)
    pos,            \* lines consumed from the current input file
    line_count,
    calls,          \* status_func invocations: <<count, count_max>>
    report          \* numbers logged at the end

vars == <<files, outfile, force, status_func, fs, present, fs0, present0, pc,
          err, inOpen, outOpen, openLog, headers, header_files, header_length,
          file_count, pos, line_count, calls, report>>

inputs == <<files, outfile, force, status_func, fs0, present0>>
groups == <<headers, header_files, header_length>>
loopv == <<file_count, pos, line_count>>

\* ----------------------------------------------------------------- helpers
Range(s) == {s[i] : i \in DOMAIN s}

SeqsUpTo(S, n) == UNION {[1..k -> S] : k \in 0..n}

Min(a, b) == IF a < b THEN a ELSE b

Rank(name) == CHOOSE i \in DOMAIN NameOrder : NameOrder[i] = name

RECURSIVE Insert(_, _)
Insert(s, name) ==
    IF s = <<>> THEN <<name>>
    ELSE IF Rank(name) < Rank(Head(s)) THEN <<name>> \o s
    ELSE <<Head(s)>> \o Insert(Tail(s), name)

RECURSIVE sorted(_)
sorted(s) == IF s = <<>> THEN <<>> ELSE Insert(sorted(Tail(s)), Head(s))

RECURSIVE SetToSeq(_)
SetToSeq(S) ==
    IF S = {} THEN <<>>
    ELSE LET x == CHOOSE y \in S : TRUE IN <<x>> \o SetToSeq(S \ {x})

\* glob(pattern): the paths a pattern matches, a pattern being modelled by
\* the set of existing paths it matches
glob(pattern) == SetToSeq(pattern)

\* get_files on a list of patterns: each pattern's sorted matches,
\* concatenated, sorted again (no deduplication)
RECURSIVE get_files(_)
get_files(globbing) ==
    IF globbing = <<>> THEN <<>>
    ELSE sorted(sorted(glob(Head(globbing))) \o get_files(Tail(globbing)))

\* f.readline() with i lines already consumed
readline(content, i) == IF i < Len(content) THEN content[i + 1] ELSE EOF

\* out_file.write(line)
write(out, line) == IF line = EOF THEN out ELSE Append(out, line)

RECURSIVE write_all(_, _)
write_all(out, ls) ==
    IF ls = <<>> THEN out ELSE write_all(write(out, Head(ls)), Tail(ls))

\* repr(line): the line between quotes
repr(line) == <<"'", line, "'">>

\* "\n".join(repr(line) for line in header)
RECURSIVE join_repr(_)
join_repr(header) ==
    IF header = <<>> THEN <<>>
    ELSE IF Len(header) = 1 THEN repr(header[1])
    ELSE repr(header[1]) \o <<"\n">> \o join_repr(Tail(header))

\* mutant of read_lines: the reads at end of file leave no entry
read_lines_NoPad(content, n) ==
    [i \in 1..Min(n, Len(content)) |-> content[i]]

\* [f.readline() for _ in range(n)] on a fresh handle
read_lines(content, n) == [i \in 1..n |-> readline(content, i - 1)]

\* mutant of find_header: the else branch of the for loop always runs
find_header_AlwaysElse(hs, current_header) == 0

\* the for/else over enumerate(headers): index of the first defined header
\* whose joined repr equals the candidate's, 0 when the else branch runs
find_header(hs, current_header) ==
    LET hit == {number \in DOMAIN hs :
                    join_repr(hs[number]) = join_repr(current_header)}
    IN IF hit = {} THEN 0
       ELSE CHOOSE number \in hit : \A m \in hit : number <= m

\* ---------------------------------------------------------------- initial
Contents == SeqsUpTo(Lines, MaxLines)

Init ==
    /\ \E globbing \in SeqsUpTo(SUBSET Names \ {{}}, MaxPatterns) :
          /\ Len(get_files(globbing)) <= Cardinality(Names)
          /\ files = get_files(globbing)
    /\ outfile \in {"o"} \cup Range(files)
    /\ force \in {None} \cup {<<n>> : n \in 0..MaxForce}
    /\ status_func \in BOOLEAN
    /\ \E body \in [Range(files) -> Contents], old \in BOOLEAN :
          /\ fs = [p \in Names \cup {"o"} |->
                      IF p \in Range(files) THEN body[p]
                      ELSE IF p = "o" /\ old THEN Stale ELSE <<>>]
          /\ present = Range(files) \cup (IF old THEN {"o"} ELSE {})
    /\ fs0 = fs
    /\ present0 = present
    /\ pc = "start"
    /\ err = ""
    /\ inOpen = <<>>
    /\ outOpen = FALSE
    /\ openLog = <<>>
    /\ headers = <<>>
    /\ header_files = <<>>
    /\ header_length = 0
    /\ file_count = 0
    /\ pos = 0
    /\ line_count = 0
    /\ calls = <<>>
    /\ report = <<>>

\* ---------------------------------------------------------------- actions
\* the file the per-file loop is at
file == files[file_count + 1]

\* mutant of CheckArguments: the outfile is not looked up in files
CheckArguments_NoOutfileCheck ==
    /\ pc = "start"
    /\ IF Len(files) < 2
       THEN /\ pc' = "raised"
            /\ err' = "ReaderError"
       ELSE /\ pc' = IF force = None THEN "gh_open1" ELSE "ghl_open"
            /\ err' = err
    /\ UNCHANGED <<inputs, fs, present, inOpen, outOpen, openLog, groups,
                   loopv, calls, report>>

\* lines 96-108: the two precondition checks, then the choice of header mode
CheckArguments ==
    /\ pc = "start"
    /\ IF outfile \in Range(files) \/ Len(files) < 2
       THEN /\ pc' = "raised"
            /\ err' = "ReaderError"
       ELSE /\ pc' = IF force = None THEN "gh_open1" ELSE "ghl_open"
            /\ err' = err
    /\ UNCHANGED <<inputs, fs, present, inOpen, outOpen, openLog, groups,
                   loopv, calls, report>>

\* get_header, line 77: with self.open(file1) as f1
GetHeaderOpen1 ==
    /\ pc = "gh_open1"
    /\ inOpen' = Append(inOpen, files[1])
    /\ openLog' = Append(openLog, <<"r", files[1]>>)
    /\ pc' = "gh_open2"
    /\ UNCHANGED <<inputs, fs, present, err, outOpen, groups, loopv, calls,
                   report>>

\* get_header, line 78: with self.open(file2) as f2, f1 still open
GetHeaderOpen2 ==
    /\ pc = "gh_open2"
    /\ inOpen' = Append(inOpen, files[2])
    /\ openLog' = Append(openLog, <<"r", files[2]>>)
    /\ pc' = "gh_read"
    /\ UNCHANGED <<inputs, fs, present, err, outOpen, groups, loopv, calls,
                   report>>

\* the lines two files have in common at their start
RECURSIVE CommonStart(_, _)
CommonStart(c1, c2) ==
    IF c1 = <<>> \/ c2 = <<>> \/ Head(c1) # Head(c2) THEN <<>>
    ELSE <<Head(c1)>> \o CommonStart(Tail(c1), Tail(c2))

\* mutant of GetHeaderCompare: all identical leading lines form the header
GetHeaderCompare_AllCommon ==
    /\ pc = "gh_read"
    /\ LET header == CommonStart(fs[files[1]], fs[files[2]])
       IN /\ headers' = <<header>>
          /\ header_files' = << <<files[1], files[2]>> >>
          /\ header_length' = Len(header)
    /\ inOpen' = <<>>
    /\ pc' = "open_out"
    /\ UNCHANGED <<inputs, fs, present, err, outOpen, openLog, loopv, calls,
                   report>>

\* get_header, lines 79-83, and combine, lines 109-121
GetHeaderCompare ==
    /\ pc = "gh_read"
    /\ LET line1 == readline(fs[files[1]], 0)
           line2 == readline(fs[files[2]], 0)
           header == IF line1 = line2 THEN <<line1>> ELSE <<>>
       IN /\ headers' = <<header>>
          /\ header_files' = << <<files[1], files[2]>> >>
          /\ header_length' = Len(header)
    /\ inOpen' = <<>>
    /\ pc' = "open_out"
    /\ UNCHANGED <<inputs, fs, present, err, outOpen, openLog, loopv, calls,
                   report>>

\* get_header_by_lines, line 87
GetHeaderByLinesOpen ==
    /\ pc = "ghl_open"
    /\ inOpen' = Append(inOpen, files[1])
    /\ openLog' = Append(openLog, <<"r", files[1]>>)
    /\ pc' = "ghl_read"
    /\ UNCHANGED <<inputs, fs, present, err, outOpen, groups, loopv, calls,
                   report>>

\* get_header_by_lines, lines 88-91, and combine, lines 116-121
GetHeaderByLinesRead ==
    /\ pc = "ghl_read"
    /\ LET header == read_lines(fs[files[1]], force[1])
       IN /\ headers' = <<header>>
          /\ header_files' = << <<files[1]>> >>
          /\ header_length' = Len(header)
    /\ inOpen' = <<>>
    /\ pc' = "open_out"
    /\ UNCHANGED <<inputs, fs, present, err, outOpen, openLog, loopv, calls,
                   report>>

\* line 129: open(outfile, "w") creates or truncates
OpenOut ==
    /\ pc = "open_out"
    /\ fs' = [fs EXCEPT ![outfile] = <<>>]
    /\ present' = present \cup {outfile}
    /\ outOpen' = TRUE
    /\ openLog' = Append(openLog, <<"w", outfile>>)
    /\ pc' = "write_header"
    /\ UNCHANGED <<inputs, err, inOpen, groups, loopv, calls, report>>

\* lines 130-131
WriteHeader ==
    /\ pc = "write_header"
    /\ fs' = [fs EXCEPT ![outfile] = write_all(@, headers[1])]
    /\ pc' = "open_in"
    /\ UNCHANGED <<inputs, present, err, inOpen, outOpen, openLog, groups,
                   loopv, calls, report>>

\* line 133
OpenIn ==
    /\ pc = "open_in"
    /\ inOpen' = Append(inOpen, file)
    /\ openLog' = Append(openLog, <<"r", file>>)
    /\ pos' = 0
    /\ pc' = "read_header"
    /\ UNCHANGED <<inputs, fs, present, err, outOpen, groups, file_count,
                   line_count, calls, report>>

\* lines 135-151: read the candidate, file it under the first equal header
ReadHeader ==
    /\ pc = "read_header"
    /\ LET current_header == read_lines(fs[file], header_length)
           number == find_header(headers, current_header)
       IN IF number # 0
          THEN /\ header_files' =
                     [header_files EXCEPT ![number] = Append(@, file)]
               /\ headers' = headers
          ELSE /\ headers' = Append(headers, current_header)
               /\ header_files' = Append(header_files, <<file>>)
    /\ pos' = Min(header_length, Len(fs[file]))
    /\ pc' = "copy"
    /\ UNCHANGED <<inputs, fs, present, err, inOpen, outOpen, openLog,
                   header_length, file_count, line_count, calls, report>>

\* mutant of CopyLine: a line equal to the canonical header's first line is
\* not written again
CopyLine_SkipHeaderLike ==
    /\ pc = "copy"
    /\ pos < Len(fs[file])
    /\ line_count' = line_count + 1
    /\ fs' = IF headers[1] # <<>> /\ readline(fs[file], pos) = headers[1][1]
             THEN fs
             ELSE [fs EXCEPT ![outfile] = write(@, readline(fs[file], pos))]
    /\ pos' = pos + 1
    /\ UNCHANGED <<inputs, present, pc, err, inOpen, outOpen, openLog, groups,
                   file_count, calls, report>>

\* lines 152-154, one iteration
CopyLine ==
    /\ pc = "copy"
    /\ pos < Len(fs[file])
    /\ line_count' = line_count + 1
    /\ fs' = [fs EXCEPT ![outfile] = write(@, readline(fs[file], pos))]
    /\ pos' = pos + 1
    /\ UNCHANGED <<inputs, present, pc, err, inOpen, outOpen, openLog, groups,
                   file_count, calls, report>>

\* end of the with block of line 133: the input handle closes
CloseIn ==
    /\ pc = "copy"
    /\ pos >= Len(fs[file])
    /\ inOpen' = <<>>
    /\ pc' = "status"
    /\ UNCHANGED <<inputs, fs, present, err, outOpen, openLog, groups, loopv,
                   calls, report>>

\* mutant of StatusUpdate: the callback gets the 0-based loop index
StatusUpdate_ZeroBased ==
    /\ pc = "status"
    /\ calls' = IF status_func
                THEN Append(calls, <<file_count, Len(files)>>)
                ELSE calls
    /\ IF file_count + 1 < Len(files)
       THEN /\ file_count' = file_count + 1
            /\ pc' = "open_in"
       ELSE /\ file_count' = file_count
            /\ pc' = "close_out"
    /\ UNCHANGED <<inputs, fs, present, err, inOpen, outOpen, openLog, groups,
                   pos, line_count, report>>

\* lines 155-156, then the next iteration or the end of the loop
StatusUpdate ==
    /\ pc = "status"
    /\ calls' = IF status_func
                THEN Append(calls, <<file_count + 1, Len(files)>>)
                ELSE calls
    /\ IF file_count + 1 < Len(files)
       THEN /\ file_count' = file_count + 1
            /\ pc' = "open_in"
       ELSE /\ file_count' = file_count
            /\ pc' = "close_out"
    /\ UNCHANGED <<inputs, fs, present, err, inOpen, outOpen, openLog, groups,
                   pos, line_count, report>>

\* end of the with block of line 129
CloseOut ==
    /\ pc = "close_out"
    /\ outOpen' = FALSE
    /\ pc' = "report"
    /\ UNCHANGED <<inputs, fs, present, err, inOpen, openLog, groups, loopv,
                   calls, report>>

\* lines 157-175: the summary, and the warning when headers differ
Report ==
    /\ pc = "report"
    /\ report' =
          [summary_files |-> file_count + 1,
           summary_lines |-> line_count,
           warned        |-> Len(headers) > 1,
           warn_headers  |-> Len(headers),
           warn_files    |-> file_count,
           group_counts  |-> [number \in DOMAIN header_files |->
                                 Len(header_files[number])]]
    /\ pc' = "done"
    /\ UNCHANGED <<inputs, fs, present, err, inOpen, outOpen, openLog, groups,
                   loopv, calls>>

\* mutant of IOFault: the handles are not scoped by with blocks
IOFault_Leak ==
    /\ pc \in {"gh_open1", "gh_open2", "gh_read", "ghl_open", "ghl_read",
               "open_out", "open_in", "read_header", "copy"}
    /\ pc' = "raised"
    /\ err' = "IOError"
    /\ UNCHANGED <<inputs, fs, present, inOpen, outOpen, openLog, groups,
                   loopv, calls, report>>

\* mutant of IOFault: a partial output file is removed again
IOFault_Rollback ==
    /\ pc \in {"gh_open1", "gh_open2", "gh_read", "ghl_open", "ghl_read",
               "open_out", "open_in", "read_header", "copy"}
    /\ pc' = "raised"
    /\ err' = "IOError"
    /\ inOpen' = <<>>
    /\ outOpen' = FALSE
    /\ fs' = IF outOpen THEN [fs EXCEPT ![outfile] = <<>>] ELSE fs
    /\ present' = IF outOpen THEN present \ {outfile} ELSE present
    /\ UNCHANGED <<inputs, openLog, groups, loopv, calls, report>>

\* an open() or a read raises OSError: nothing in combine catches it, every
\* enclosing with block closes its handle
IOFault ==
    /\ pc \in {"gh_open1", "gh_open2", "gh_read", "ghl_open", "ghl_read",
               "open_out", "open_in", "read_header", "copy"}
    /\ pc' = "raised"
    /\ err' = "IOError"
    /\ inOpen' = <<>>
    /\ outOpen' = FALSE
    /\ UNCHANGED <<inputs, fs, present, openLog, groups, loopv, calls, report>>

Next ==
    \/ CheckArguments
    \/ GetHeaderOpen1
    \/ GetHeaderOpen2
    \/ GetHeaderCompare
    \/ GetHeaderByLinesOpen
    \/ GetHeaderByLinesRead
    \/ OpenOut
    \/ WriteHeader
    \/ OpenIn
    \/ ReadHeader
    \/ CopyLine
    \/ CloseIn
    \/ StatusUpdate
    \/ CloseOut
    \/ Report
    \/ IOFault

Spec == Init /\ [][Next]_vars

\* ------------------------------------------------- vocabulary of the claims
\* a header variant as it reaches the output: empty reads write nothing
Written(header) == SelectSeq(header, LAMBDA l : l # EOF)

\* the lines of a file after its first header_length lines
Data(name) == SubSeq(fs0[name], header_length + 1, Len(fs0[name]))

\* the data lines of files[1..k], in list order
RECURSIVE DataUpTo(_)
DataUpTo(k) == IF k = 0 THEN <<>> ELSE DataUpTo(k - 1) \o Data(files[k])

\* the header candidate of a file: its first header_length lines, an empty
\* read standing for each line the file does not have
Candidate(name) ==
    [i \in 1..header_length |->
        IF i <= Len(fs0[name]) THEN fs0[name][i] ELSE EOF]

Short(name) == Len(fs0[name]) < header_length

IsPrefix(s, t) == Len(s) <= Len(t) /\ SubSeq(t, 1, Len(s)) = s

Count(name, s) == Cardinality({i \in DOMAIN s : s[i] = name})

RECURSIVE SumLen(_)
SumLen(ss) == IF ss = <<>> THEN 0 ELSE Len(Head(ss)) + SumLen(Tail(ss))

WriteOpens == {i \in DOMAIN openLog : openLog[i][1] = "w"}

\* the paths opened for reading before / after the output was opened
HeaderOpens ==
    LET n == IF WriteOpens = {} THEN Len(openLog)
             ELSE (CHOOSE i \in WriteOpens : \A j \in WriteOpens : i <= j) - 1
    IN [i \in 1..n |-> openLog[i][2]]

PassOpens ==
    IF WriteOpens = {} THEN <<>>
    ELSE LET w == CHOOSE i \in WriteOpens : \A j \in WriteOpens : i <= j
         IN [i \in 1..(Len(openLog) - w) |-> openLog[w + i][2]]

InPass == pc \in {"write_header", "open_in", "read_header", "copy", "status",
                  "close_out"}

Finished == pc \in {"done", "raised"}

\* the step of the per-file pass that files the current file under a header
Classifies == pc = "read_header" /\ pc' = "copy"

ExpectedCalls(k) == [i \in 1..k |-> <<i, Len(files)>>]

\* ------------------------------------------------------------------ claims

\* C1: when combine completes, the output file is the canonical header
\* (group 0's variant) once at the start, followed by the lines of every file
\* after its first header_length lines, in input-list order: nothing dropped,
\* duplicated or reordered, whether or not the file's header matched.
C1_DataPreserved ==
    pc = "done" =>
        /\ Len(files) >= 2
        /\ outfile \in present
        /\ fs[outfile] = Written(headers[1]) \o DataUpTo(Len(files))
        /\ \A name \in Range(files) : fs[name] = fs0[name]

\* a completed run with two header variants, in which a file whose header
\* differs from the canonical one contributes data lines
C1_Witness ==
    /\ pc = "done"
    /\ header_length >= 1
    /\ Len(headers) >= 2
    /\ \E name \in Range(header_files[2]) : Data(name) # <<>>
    /\ Written(headers[1]) # <<>>

\* C2: after combine completes, in either header mode, every input file is
\* recorded in exactly one header group and recorded there one time: the
\* groups do not overlap, their union is the input file set, and the member
\* counts sum to the number of input files.
C2_GroupPartition ==
    pc = "done" =>
        /\ UNION {Range(header_files[g]) : g \in DOMAIN header_files}
              = Range(files)
        /\ \A g, k \in DOMAIN header_files :
              g # k => Range(header_files[g]) \cap Range(header_files[k]) = {}
        /\ \A name \in Range(files) : \A g \in DOMAIN header_files :
              name \in Range(header_files[g]) =>
                  Count(name, header_files[g]) = Count(name, files)
        /\ SumLen(header_files) = Len(files)
        /\ SumLen(report.group_counts) = Len(files)

\* C3: combine called with outfile among the input files, or with fewer than
\* two input files, ends in a ReaderError before any file is opened, read,
\* created or truncated, and without a progress callback.
C3_PreconditionRejects ==
    (outfile \in Range(files) \/ Len(files) < 2) =>
        /\ pc \in {"start", "raised"}
        /\ pc = "raised" => err = "ReaderError"
        /\ fs = fs0
        /\ present = present0
        /\ openLog = <<>>
        /\ inOpen = <<>>
        /\ ~outOpen
        /\ calls = <<>>

\* the outfile is one of at least two input files and the call has been
\* rejected
C3_Witness ==
    /\ pc = "raised"
    /\ err = "ReaderError"
    /\ Len(files) >= 2
    /\ outfile \in Range(files)
    /\ fs0[outfile] # <<>>

C5_Progress ==
    status_func =>
        /\ calls = ExpectedCalls(Len(calls))
        /\ pc = "done" => Len(calls) = Len(files)
        /\ Len(calls) <= Len(PassOpens)
        /\ Len(PassOpens) <= Len(calls) + 1
        /\ (InPass /\ inOpen # <<>>) => Len(calls) = Len(PassOpens) - 1
        /\ calls # <<>> =>
              IsPrefix(Written(headers[1]) \o DataUpTo(Len(calls)),
                       fs[outfile])

\* a completed run over three files with a callback and data lines
C5_Witness ==
    /\ pc = "done"
    /\ status_func
    /\ Len(files) = 3
    /\ line_count >= 2
    /\ Len(calls) = 3

\* C6: on completion the reported number of data lines is the number of
\* lines written after the canonical header, and every total-file count
\* reported, in the summary and in the header-mismatch warning, is the number
\* of input files.
C6_ReportedCounts ==
    pc = "done" =>
        /\ report.summary_lines
              = Len(fs[outfile]) - Len(Written(headers[1]))
        /\ report.summary_lines = Len(DataUpTo(Len(files)))
        /\ report.summary_files = Len(files)
        /\ report.warned => report.warn_files = Len(files)

\* C7: an input file with fewer lines than header_length is not an error;
\* its header candidate matches none of the groups existing when it is
\* classified and it is placed in a new group of its own.
C7_ShortOwnGroup ==
    [][(Classifies /\ Short(file)) =>
          /\ \A g \in DOMAIN headers : headers[g] # Candidate(file)
          /\ headers' = Append(headers, Candidate(file))
          /\ header_files' = Append(header_files, <<file>>)]_vars

\* C7 as the code has it: a short file is not an error; its candidate is the
\* lines read followed by one empty read per missing line, and it is grouped
\* like any other file: added to the earliest group whose variant equals the
\* candidate, a new group only when none does.
C7_ShortGrouped ==
    [][(Classifies /\ Short(file)) =>
          LET cand == Candidate(file)
              hit == {g \in DOMAIN headers : headers[g] = cand}
          IN /\ err' = ""
             /\ EOF \in Range(cand)
             /\ IF hit = {}
                THEN /\ headers' = Append(headers, cand)
                     /\ header_files' = Append(header_files, <<file>>)
                ELSE /\ headers' = headers
                     /\ \E g \in hit :
                          /\ \A m \in hit : g <= m
                          /\ header_files' =
                                [header_files EXCEPT ![g] = Append(@, file)]
                          /\ \A name \in Range(header_files[g]) : Short(name)]_vars

\* a completed forced-length run in which a short file shares its group with
\* another file, next to a group of another variant
C7_Witness ==
    /\ pc = "done"
    /\ force # None
    /\ Len(headers) >= 2
    /\ \E g \in DOMAIN headers :
          /\ EOF \in Range(headers[g])
          /\ Cardinality(Range(header_files[g])) >= 2

\* what C8 says of the output handle and of the per-file pass
C8_Handles ==
    /\ Cardinality(WriteOpens) <= 1
    /\ outOpen => WriteOpens # {}
    /\ InPass => outOpen
    /\ (Finished \/ pc = "report") => (~outOpen /\ inOpen = <<>>)
    /\ IsPrefix(PassOpens, files)
    /\ outOpen => Len(inOpen) <= 1
    /\ (outOpen /\ inOpen # <<>>) => inOpen = <<files[Len(PassOpens)]>>
    /\ pc = "open_in" => inOpen = <<>>

\* C8: throughout a combine run, header determination included, at most one
\* input handle is open at any moment and input files are opened in list
\* order, each closed before the next opens; the output handle is opened
\* once, stays open for the whole per-file pass and is closed on every exit
\* path.
C8_OneInputOpen ==
    /\ C8_Handles
    /\ Len(inOpen) <= 1

\* C8 as the code has it: during the per-file pass at most one input handle
\* is open, files are opened in list order, each closed before the next
\* opens; during auto-detect header determination files[0] and files[1] are
\* open together, both closed before the output is opened; forced-length
\* determination opens files[0] alone.  The output handle is opened once,
\* stays open for the whole pass and is closed on every exit path.
C8_InputHandles ==
    /\ C8_Handles
    /\ Len(inOpen) <= 2
    /\ Len(inOpen) = 2 =>
          /\ force = None
          /\ pc = "gh_read"
          /\ inOpen = <<files[1], files[2]>>
          /\ ~outOpen
    /\ IsPrefix(HeaderOpens,
                SubSeq(files, 1, Min(Len(files), IF force = None THEN 2 ELSE 1)))
    /\ pc = "open_out" => inOpen = <<>>

\* a run that faulted in the per-file pass after header determination held
\* two input handles, the output handle closed again
C8_Witness ==
    /\ pc = "raised"
    /\ err = "IOError"
    /\ HeaderOpens = <<files[1], files[2]>>
    /\ Len(PassOpens) = 2
    /\ ~outOpen

\* C9: when opening or reading the k-th input file fails during the per-file
\* pass, combine ends with that fault, not a ReaderError, and does nothing
\* more: no later file is opened, the callback is not invoked for file k or
\* later, and the output stays on disk with the canonical header and all data
\* lines of files 1..k-1 in order (followed by the lines of file k copied
\* before the fault, none when the open failed).
C9_FaultLeavesPartialOutput ==
    (pc = "raised" /\ WriteOpens # {}) =>
        LET k == file_count + 1
            done == Written(headers[1]) \o DataUpTo(k - 1)
        IN /\ err = "IOError"
           /\ ~ENABLED Next
           /\ report = <<>>
           /\ Len(PassOpens) \in {k - 1, k}
           /\ IsPrefix(PassOpens, files)
           /\ calls = IF status_func THEN ExpectedCalls(k - 1) ELSE <<>>
           /\ outfile \in present
           /\ \E j \in 0..Len(Data(files[k])) :
                 /\ fs[outfile] = done \o SubSeq(Data(files[k]), 1, j)
                 /\ Len(PassOpens) = k - 1 => j = 0

\* the third file faults after one of its data lines was copied, the first
\* two files having contributed data
C9_Witness ==
    /\ pc = "raised"
    /\ err = "IOError"
    /\ file_count = 2
    /\ Len(PassOpens) = 3
    /\ DataUpTo(2) # <<>>
    /\ Len(fs[outfile]) > Len(Written(headers[1]) \o DataUpTo(2))
    /\ Len(fs[outfile]) < Len(Written(headers[1]) \o DataUpTo(3))

\* the registered variants are pairwise distinct and as long as the canonical
\* header; with header_length 0 there is one group at the end
C10_Variants ==
    /\ \A g, k \in DOMAIN headers : g # k => headers[g] # headers[k]
    /\ \A g \in DOMAIN headers : Len(headers[g]) = header_length
    /\ Len(headers) = Len(header_files)
    /\ (pc = "done" /\ header_length = 0) => Len(headers) = 1

\* a file joins the earliest-created group whose variant equals its
\* candidate, a new group is appended only when no variant equals it, and
\* existing groups keep their position, variant and members
C10_Step ==
    /\ Classifies =>
          LET cand == Candidate(file)
              hit == {g \in DOMAIN headers : headers[g] = cand}
          IN IF hit = {}
             THEN /\ headers' = Append(headers, cand)
                  /\ header_files' = Append(header_files, <<file>>)
             ELSE /\ headers' = headers
                  /\ \E g \in hit :
                       /\ \A m \in hit : g <= m
                       /\ header_files' =
                             [header_files EXCEPT ![g] = Append(@, file)]
    /\ IsPrefix(headers, headers')
    /\ \A g \in DOMAIN header_files :
          /\ g \in DOMAIN header_files'
          /\ IsPrefix(header_files[g], header_files'[g])

\* C10: at every point of the per-file pass the registered header variants
\* are pairwise distinct and have as many entries as the canonical header; a
\* file is added to the earliest-created group whose variant equals its
\* candidate and a new group is appended only when none does, existing groups
\* keeping position, variant and members; with header_length 0 exactly one
\* group exists at the end.
C10_GroupsDistinct == []C10_Variants /\ [][C10_Step]_vars

\* a completed run with two variants in which a later file joined the second
\* group
C10_Witness ==
    /\ pc = "done"
    /\ Len(headers) = 2
    /\ header_length >= 1
    /\ Len(header_files[2]) = 2
    /\ header_files[2][2] = files[3]

====
